---------------------------- MODULE Spec2Model ----------------------------
(***************************************************************************)
(* A model of polyellipsoid: the System assembler (system.py), the         *)
(* Simulation controller (simulate.py) and the Ellipsoid bead              *)
(* (ellipsoid.py).                                                         *)
(*                                                                         *)
(* Numbers.  Python floats are modelled by integers at a fixed resolution: *)
(*   - lengths are integers; one cm is one unit and one nm-count is        *)
(*     CmToNm units per cm, so the cm -> nm conversion multiplies and the  *)
(*     nm -> cm conversion divides;                                        *)
(*   - x**(1/3) and x**(1/2) are the integer roots (floor), x / y is the   *)
(*     floor quotient: a result is exact to one unit of resolution;        *)
(*   - temperatures are integers in hundredths (kT = 1.0 is 100);          *)
(*   - bead masses and coordinates are integers in 1/Den units, Den being  *)
(*     divisible by 2, 3 and 5, so mass/n_particles and length/2 are       *)
(*     exact.                                                              *)
(* An optional value (a Python argument that may be None) is a sequence of *)
(* length at most one: <<>> is None, <<v>> is the value v.                 *)
(***************************************************************************)
EXTENDS Integers, Sequences, FiniteSets, TLC

VARIABLES
    system,      \* the System object (system.py)
    simulation,  \* the Simulation object and the engine state it drives
    trace,       \* the engine calls made by the most recent phase call
    lastCall,    \* the most recent call: its name, arguments and exception
    history,     \* what has happened so far (ghost state for the properties)
    bead,        \* the most recently built Ellipsoid (ellipsoid.py)
    polymer      \* the Polymer built last (ellipsoid.py)

vars == <<system, simulation, trace, lastCall, history, bead, polymer>>

---------------------------------------------------------------------------
(* Bounds of the model *)

MaxChains == 8        \* most chains in a system
MaxChainLen == 2      \* most beads in a chain
MaxMass == 3          \* largest bead mass (amu)
MaxDensity == 2       \* largest density (g/cm^3)
MaxEdge == 3          \* largest fixed box edge (cm units)
MaxN == 2             \* largest lattice repeat n of stack
MaxCalls == 2         \* most phase calls on one Simulation
MaxSeqLen == 3        \* longest anneal step_sequence / schedule
MaxSteps == 2         \* largest step count of one run

---------------------------------------------------------------------------
(* Python helpers *)

None == <<>>
Some(v) == <<v>>
IsNone(o) == o = <<>>
Val(o) == o[1]

\* Python truthiness of an optional number: None and 0 are falsy.
Truthy(o) == o # <<>> /\ o[1] # 0

RECURSIVE SumSeq(_)
SumSeq(s) == IF s = <<>> THEN 0 ELSE s[1] + SumSeq(Tail(s))

RECURSIVE ProdSeq(_)
ProdSeq(s) == IF s = <<>> THEN 1 ELSE s[1] * ProdSeq(Tail(s))

Max(S) == CHOOSE m \in S : \A x \in S : x <= m
Min(S) == CHOOSE m \in S : \A x \in S : m <= x

\* x ** (1/2) and x ** (1/3) at the model's resolution
ISqrt(v) == CHOOSE r \in 0..v : r * r <= v /\ v < (r + 1) * (r + 1)
ICbrt(v) == CHOOSE r \in 0..v : r * r * r <= v /\ v < (r + 1) * (r + 1) * (r + 1)

---------------------------------------------------------------------------
(* polyellipsoid.utils.base_units: the conversion factors, at model scale *)

AmuToG == 3
CmToNm == 10

---------------------------------------------------------------------------
(* system.py: System *)

\* sum([i*j for i,j in zip(n_chains, chain_lengths)])
RECURSIVE DotSeq(_, _)
DotSeq(a, b) ==
    IF a = <<>> \/ b = <<>> THEN 0
    ELSE a[1] * b[1] + DotSeq(Tail(a), Tail(b))

\* for n, l in zip(n_chains, chain_lengths): for i in range(n): chains.append(chain)
\* A chain is its bead count, its lattice position and whether it has been
\* added to a compound hierarchy.
RECURSIVE BuildChains(_, _)
BuildChains(n_chains, chain_lengths) ==
    IF n_chains = <<>> \/ chain_lengths = <<>> THEN <<>>
    ELSE [i \in 1..n_chains[1] |->
             [length |-> chain_lengths[1], pos |-> <<0, 0>>, parent |-> FALSE]]
         \o BuildChains(Tail(n_chains), Tail(chain_lengths))

\* System.__init__
NewSystem(n_chains, chain_lengths, bead_length, bead_mass, density) ==
    [ n_chains      |-> n_chains,
      chain_lengths |-> chain_lengths,
      density       |-> density,
      bead_mass     |-> bead_mass,
      bead_length   |-> bead_length,
      n_beads       |-> DotSeq(n_chains, chain_lengths),
      system_mass   |-> bead_mass * DotSeq(n_chains, chain_lengths),
      target_box    |-> None,
      mb_system     |-> None,
      chains        |-> BuildChains(n_chains, chain_lengths) ]

\* M = self.system_mass * units["amu_to_g"]
MassInG(sys) == sys.system_mass * AmuToG

\* vol = (M / self.density)
Volume(sys) == MassInG(sys) \div sys.density

\* System._calculate_L; fixed_L is None (<<>> wrapped as an optional) or an
\* array of fixed lengths in cm.
CalculateLOneFixedBug(sys, fixed_L) ==
    LET vol == Volume(sys) IN
    IF IsNone(fixed_L) THEN ICbrt(vol) * CmToNm
    ELSE (vol \div ProdSeq(Val(fixed_L))) * CmToNm

CalculateL(sys, fixed_L) ==
    LET vol == Volume(sys) IN
    IF IsNone(fixed_L) THEN ICbrt(vol) * CmToNm
    ELSE LET L == vol \div ProdSeq(Val(fixed_L)) IN
         IF Len(Val(fixed_L)) = 1 THEN ISqrt(L) * CmToNm
         ELSE L * CmToNm

\* constraints[np.where(constraints != None)]
RECURSIVE Given(_)
Given(constraints) ==
    IF constraints = <<>> THEN <<>>
    ELSE (IF IsNone(constraints[1]) THEN <<>> ELSE <<Val(constraints[1])>>)
         \o Given(Tail(constraints))

\* fixed_L /= units["cm_to_nm"]
ToCm(lengths) == [i \in 1..Len(lengths) |-> lengths[i] \div CmToNm]

\* System.set_target_box: the box it assigns to self.target_box
TargetBoxFor(sys, x_constraint, y_constraint, z_constraint) ==
    LET constraints == <<x_constraint, y_constraint, z_constraint>> IN
    IF ~(Truthy(x_constraint) \/ Truthy(y_constraint) \/ Truthy(z_constraint))
    THEN LET L == CalculateL(sys, None) IN <<L, L, L>>
    ELSE LET fixed_L == ToCm(Given(constraints))
             L == CalculateL(sys, Some(fixed_L))
         IN  [i \in 1..3 |->
                 IF IsNone(constraints[i]) THEN L ELSE Val(constraints[i])]


\* pack_box = self.target_box * box_expand_factor
Scale(box, factor) == [i \in 1..Len(box) |-> box[i] * factor]

\* if sum(self.n_chains) != n*n*2: raise ValueError(...)
StackCountWrongBug(sys, n) == SumSeq(sys.n_chains) # n * n

StackCountWrong(sys, n) == SumSeq(sys.n_chains) # n * n * 2

\* The two loops of System.stack: chain 2c is chain1 and chain 2c+1 is chain2
\* of cell c = i*n + j; chain2 is translated by vector*(0, y, z), the cell by
\* (0, y*j, 0) and the layer by (0, 0, z*i).  Positions are the (y, z) parts.
StackChains(chains, y, z, n, vector) ==
    [k \in 1..Len(chains) |->
        LET idx  == k - 1
            cell == idx \div 2
            i    == cell \div n
            j    == cell % n
            dy   == y * j + (IF idx % 2 = 1 THEN vector[2] * y ELSE 0)
            dz   == z * i + (IF idx % 2 = 1 THEN vector[3] * z ELSE 0)
        IN  [chains[k] EXCEPT !.pos = <<chains[k].pos[1] + dy,
                                        chains[k].pos[2] + dz>>,
                              !.parent = TRUE]]

\* np.array(self.mb_system.get_boundingbox().lengths); bounding_box *= 3
\* A chain lies along x, bead after bead.
BoundingBox3(sys, chains) ==
    LET ys == {chains[k].pos[1] : k \in 1..Len(chains)}
        zs == {chains[k].pos[2] : k \in 1..Len(chains)}
        xl == Max({chains[k].length : k \in 1..Len(chains)}) * sys.bead_length
    IN  <<3 * xl, 3 * (Max(ys) - Min(ys)), 3 * (Max(zs) - Min(zs))>>

---------------------------------------------------------------------------
(* What the properties need to remember *)

NoCall == [op |-> "none", args |-> <<>>, error |-> "none"]
Call(op, args, error) == [op |-> op, args |-> args, error |-> error]

\* boxSet: set_target_box has run; calls: phase calls made; created: method
\* objects created; shrunk, quenched: a shrink, a quench has completed
InitHistory ==
    [boxSet |-> FALSE, calls |-> 0, created |-> 0,
     shrunk |-> FALSE, quenched |-> FALSE]

---------------------------------------------------------------------------
(* system.py: the operations of System *)

\* if self.target_box is None: self.set_target_box()
PackTargetBoxAlwaysBug(sys) == TargetBoxFor(sys, None, None, None)

PackTargetBox(sys) ==
    IF IsNone(sys.target_box) THEN TargetBoxFor(sys, None, None, None)
    ELSE sys.target_box

\* System.set_target_box(x_constraint, y_constraint, z_constraint)
SetTargetBox(x, y, z) ==
    /\ system' = [system EXCEPT !.target_box = TargetBoxFor(system, x, y, z)]
    /\ history' = [history EXCEPT !.boxSet = TRUE]
    /\ lastCall' = Call("set_target_box", <<x, y, z>>, "none")
    /\ UNCHANGED <<simulation, trace, bead, polymer>>

\* System.pack(box_expand_factor); packed says whether mb.packing.fill_box
\* found a placement (it raises otherwise, and pack does not catch it).
Pack(box_expand_factor, packed) ==
    LET box == PackTargetBox(system)
        pack_box == Scale(box, box_expand_factor)
    IN  /\ system' = [system EXCEPT
              !.target_box = box,
              !.mb_system = IF packed
                            THEN Some([kind |-> "packed", box |-> pack_box,
                                       labelled |-> TRUE])
                            ELSE @]
        /\ history' = [history EXCEPT
              !.boxSet = @ \/ IsNone(system.target_box)]
        /\ lastCall' = Call("pack", <<box_expand_factor>>,
                            IF packed THEN "none" ELSE "PackingError")
        /\ UNCHANGED <<simulation, trace, bead, polymer>>

\* System.stack(y, z, n, vector, x_axis_adjust)
Stack(y, z, n, vector, x_axis_adjust) ==
    IF StackCountWrong(system, n)
    THEN /\ lastCall' = Call("stack", <<y, z, n, vector, x_axis_adjust>>,
                             "ValueError")
         /\ UNCHANGED <<system, simulation, trace, history, bead, polymer>>
    ELSE \* mbuild refuses to add a chain that already has a parent, so a
         \* stack that passes the count check runs on fresh chains only
         /\ \A k \in 1..Len(system.chains) : ~system.chains[k].parent
         /\ LET chains == StackChains(system.chains, y, z, n, vector)
                bounding_box == BoundingBox3(system, chains)
                target_x == bounding_box[1] * x_axis_adjust
            IN  system' = [system EXCEPT
                   !.chains = chains,
                   !.mb_system = Some([kind |-> "stacked",
                                       box |-> bounding_box,
                                       labelled |-> TRUE]),
                   !.target_box =
                       TargetBoxFor(system, Some(target_x), None, None)]
         /\ history' = [history EXCEPT !.boxSet = TRUE]
         /\ lastCall' = Call("stack", <<y, z, n, vector, x_axis_adjust>>,
                             "none")
         /\ UNCHANGED <<simulation, trace, bead, polymer>>

---------------------------------------------------------------------------
(* simulate.py: Simulation *)

\* Before Simulation.__init__ has run
NoSimulation ==
    [ constructed |-> FALSE,
      ran_shrink  |-> FALSE,
      integrator  |-> [forces |-> <<>>, rigid |-> "none", methods |-> <<>>],
      operations  |-> [integrator |-> FALSE, updaters |-> <<>>],
      target_box  |-> None,
      momenta     |-> None ]

\* Simulation.__init__: ran_shrink, the integrator with its forces and rigid
\* constraint and no method; the engine state has no integrator registered.
NewSimulation ==
    [ constructed |-> TRUE,
      ran_shrink  |-> FALSE,
      integrator  |-> [forces  |-> <<"gb", "harmonic">>,
                       rigid   |-> "rigid",
                       methods |-> <<>>],
      operations  |-> [integrator |-> FALSE, updaters |-> <<>>],
      target_box  |-> None,
      momenta     |-> None ]

\* hoomd.md.methods.NVT(filter=self.centers, kT=kT, tau=self.tau): a new
\* method object; id tells one object from another.
NVT(id, kT) == [id |-> id, kT |-> kT]

\* An engine call, as recorded in trace
Ev(ev, arg) == [ev |-> ev, arg |-> arg]

\* self.integrator.methods = [integrator_method]
SetMethodsBug(integrator, method) ==
    [integrator EXCEPT !.methods = Append(@, method)]

SetMethodsDropForcesBug(integrator, method) ==
    [integrator EXCEPT !.methods = <<method>>, !.forces = <<>>]

SetMethods(integrator, method) ==
    [integrator EXCEPT !.methods = <<method>>]

\* self.integrator.methods[0].kT = kT
SetKT(integrator, kT) ==
    [integrator EXCEPT !.methods[1].kT = kT]

\* if self.ran_shrink: (quench, line 194)
QuenchReusesBug(sim) == FALSE

QuenchReuses(sim) == sim.ran_shrink

\* if not self.ran_shrink: (anneal, line 232)
AnnealCreatesBug(sim) == TRUE

AnnealCreates(sim) == ~sim.ran_shrink

\* Simulation.__init__
SimulationInit ==
    /\ ~simulation.constructed
    /\ simulation' = NewSimulation
    /\ lastCall' = Call("Simulation", <<>>, "none")
    /\ trace' = <<>>
    /\ UNCHANGED <<system, history, bead, polymer>>

\* Simulation.shrink(kT, n_steps, shrink_period)
Shrink(kT, n_steps, shrink_period) ==
    /\ simulation.constructed
    /\ history.calls < MaxCalls
    /\ IF IsNone(system.target_box)
       THEN \* self.system.target_box[0] with target_box None
            /\ lastCall' = Call("shrink", <<kT, n_steps, shrink_period>>,
                                "TypeError")
            /\ trace' = <<>>
            /\ history' = [history EXCEPT !.calls = @ + 1]
            /\ UNCHANGED <<system, simulation, bead, polymer>>
       ELSE LET box_resize == [box2 |-> system.target_box,
                               t_ramp |-> n_steps,
                               period |-> shrink_period]
                integrator_method == NVT(history.created + 1, kT)
            IN  /\ simulation' = [simulation EXCEPT
                      !.target_box = system.target_box,
                      !.operations = [integrator |-> TRUE,
                                      updaters |-> Append(@.updaters,
                                                          box_resize)],
                      !.integrator = SetMethods(@, integrator_method),
                      !.momenta = Some(kT),
                      !.ran_shrink = TRUE]
                /\ trace' = << Ev("add_updater", n_steps),
                               Ev("new_method", kT),
                               Ev("add_integrator", 0),
                               Ev("thermalize", kT),
                               Ev("run", n_steps + 1) >>
                /\ history' = [history EXCEPT !.calls = @ + 1,
                                              !.created = @ + 1,
                                              !.shrunk = TRUE]
                /\ lastCall' = Call("shrink", <<kT, n_steps, shrink_period>>,
                                    "none")
                /\ UNCHANGED <<system, bead, polymer>>

\* Simulation.quench(kT, n_steps)
Quench(kT, n_steps) ==
    /\ simulation.constructed
    /\ history.calls < MaxCalls
    /\ IF QuenchReuses(simulation)
       THEN /\ simulation' = [simulation EXCEPT
                  !.integrator = SetKT(@, kT),
                  !.momenta = Some(kT)]
            /\ trace' = << Ev("set_kT", kT),
                           Ev("thermalize", kT),
                           Ev("run", n_steps) >>
            /\ history' = [history EXCEPT !.calls = @ + 1,
                                          !.quenched = TRUE]
       ELSE /\ simulation' = [simulation EXCEPT
                  !.integrator = SetMethods(@, NVT(history.created + 1, kT)),
                  !.operations.integrator = TRUE,
                  !.momenta = Some(kT)]
            /\ trace' = << Ev("new_method", kT),
                           Ev("add_integrator", 0),
                           Ev("thermalize", kT),
                           Ev("run", n_steps) >>
            /\ history' = [history EXCEPT !.calls = @ + 1,
                                          !.created = @ + 1,
                                          !.quenched = TRUE]
    /\ lastCall' = Call("quench", <<kT, n_steps>>, "none")
    /\ UNCHANGED <<system, bead, polymer>>

\* kT=1.0 of the method anneal creates (line 234), in hundredths
DefaultKT == 100

\* np.linspace(start, stop, num): the points as exact fractions <<p, q>>
\* (the value p/q, in hundredths)
LinspaceNoEndpointBug(start, stop, num) ==
    [i \in 1..num |-> <<start * num + (i - 1) * (stop - start), num>>]

Linspace(start, stop, num) ==
    [i \in 1..num |->
        IF num = 1 THEN <<start, 1>>
        ELSE <<start * (num - 1) + (i - 1) * (stop - start), num - 1>>]

\* np.round(t, 1): to the nearest tenth, a tie going to the even tenth.  t is
\* a fraction in hundredths, the result an integer in hundredths.  (numpy
\* rounds rint(t * 10) / 10 in binary floating point: 1.05 goes to 1.0 and
\* 1.15 to 1.2, as here.)
Round1(t) ==
    LET q == 10 * t[2]
        f == t[1] \div q
        m == t[1] % q
        up == 2 * m > q \/ (2 * m = q /\ f % 2 = 1)
    IN  10 * (IF up THEN f + 1 ELSE f)

\* d[k] = v on a dict kept as the sequence of its items in insertion order: an
\* existing key keeps its place and takes the new value.
DictSetKeepFirstBug(d, k, v) ==
    IF \E i \in 1..Len(d) : d[i].key = k
    THEN d
    ELSE Append(d, [key |-> k, val |-> v])

DictSet(d, k, v) ==
    IF \E i \in 1..Len(d) : d[i].key = k
    THEN [i \in 1..Len(d) |-> IF d[i].key = k THEN [key |-> k, val |-> v]
                                               ELSE d[i]]
    ELSE Append(d, [key |-> k, val |-> v])

\* dict(zip(keys, vals)), over the first n pairs
RECURSIVE DictZip(_, _, _)
DictZip(keys, vals, n) ==
    IF n = 0 THEN <<>>
    ELSE DictSet(DictZip(keys, vals, n - 1), keys[n], vals[n])

\* temps = [np.round(t, 1) for t in np.linspace(kT_init, kT_final, len(step_sequence))]
RampTemps(kT_init, kT_final, step_sequence) ==
    LET temps == Linspace(kT_init, kT_final, Len(step_sequence))
    IN  [i \in 1..Len(temps) |-> Round1(temps[i])]

\* schedule = dict(zip(temps, step_sequence))
RampSchedule(kT_init, kT_final, step_sequence) ==
    DictZip(RampTemps(kT_init, kT_final, step_sequence), step_sequence,
            Len(step_sequence))

\* for kT in schedule: methods[0].kT = kT; thermalize(kT); run(schedule[kT])
ScheduleTraceRunFirstBug(schedule) ==
    [i \in 1..(3 * Len(schedule)) |->
        LET item == schedule[((i - 1) \div 3) + 1] IN
        CASE (i - 1) % 3 = 0 -> Ev("run", item.val)
          [] (i - 1) % 3 = 1 -> Ev("set_kT", item.key)
          [] OTHER           -> Ev("thermalize", item.key)]

ScheduleTrace(schedule) ==
    [i \in 1..(3 * Len(schedule)) |->
        LET item == schedule[((i - 1) \div 3) + 1] IN
        CASE (i - 1) % 3 = 0 -> Ev("set_kT", item.key)
          [] (i - 1) % 3 = 1 -> Ev("thermalize", item.key)
          [] OTHER           -> Ev("run", item.val)]

\* Simulation.anneal(kT_init, kT_final, step_sequence, schedule);
\* step_sequence and schedule are optional (None by default).
Anneal(kT_init, kT_final, step_sequence, schedule) ==
    /\ simulation.constructed
    /\ history.calls < MaxCalls
    /\ LET creates == AnnealCreates(simulation)
           \* lines 232-237
           integ1 == IF creates
                     THEN SetMethods(simulation.integrator,
                                     NVT(history.created + 1, DefaultKT))
                     ELSE simulation.integrator
           trace1 == IF creates
                     THEN << Ev("new_method", DefaultKT),
                             Ev("add_integrator", 0) >>
                     ELSE <<>>
           \* if not schedule: None and the empty dict are both falsy
           ramp == IsNone(schedule) \/ Val(schedule) = <<>>
           \* len(step_sequence) with step_sequence None
           typeError == ramp /\ IsNone(step_sequence)
           sched == IF typeError THEN <<>>
                    ELSE IF ramp
                    THEN RampSchedule(kT_init, kT_final, Val(step_sequence))
                    ELSE Val(schedule)
       IN  /\ simulation' = [simulation EXCEPT
                 !.integrator = IF sched = <<>> THEN integ1
                                ELSE SetKT(integ1, sched[Len(sched)].key),
                 !.operations.integrator = @ \/ creates,
                 !.momenta = IF sched = <<>> THEN @
                             ELSE Some(sched[Len(sched)].key)]
           /\ trace' = trace1 \o ScheduleTrace(sched)
           /\ history' = [history EXCEPT
                 !.calls = @ + 1,
                 !.created = IF creates THEN @ + 1 ELSE @]
           /\ lastCall' = Call("anneal",
                               <<kT_init, kT_final, step_sequence, schedule>>,
                               IF typeError THEN "TypeError" ELSE "none")
    /\ UNCHANGED <<system, bead, polymer>>

---------------------------------------------------------------------------
(* ellipsoid.py: Ellipsoid *)

\* Masses and coordinates are kept in 1/Den units.
Den == 2 * 3 * 5

NoBead == [built |-> FALSE, children |-> <<>>, bonds |-> {}]

\* Compound(pos=..., name=..., mass=...)
Particle(name, pos, mass) == [name |-> name, pos |-> pos, mass |-> mass]

\* axis * length / 2
HalfAlong(axis, length) == [i \in 1..3 |-> (axis[i] * length * Den) \div 2]

Neg(v) == [i \in 1..Len(v) |-> 0 - v[i]]

\* self.add([self.head, self.mid, self.tail])
CoreChildrenTailFirstBug(head, mid, tail) == <<tail, mid, head>>

CoreChildren(head, mid, tail) == <<head, mid, tail>>

\* Ellipsoid.__init__(name, mass, major_length, major_axis, minor_length,
\* minor_axis); minor_length and minor_axis are optional.  A bond is the pair
\* of its ends' names.
Ellipsoid(name, mass, major_length, major_axis, minor_length, minor_axis) ==
    LET five == Truthy(minor_length) /\ ~IsNone(minor_axis)
        n_particles == IF five THEN 5 ELSE 3
        m == (mass * Den) \div n_particles
        head == Particle("CH", HalfAlong(major_axis, major_length), m)
        tail == Particle("CT", Neg(HalfAlong(major_axis, major_length)), m)
        mid  == Particle("CC", <<0, 0, 0>>, m)
        core == CoreChildren(head, mid, tail)
        side == IF five
                THEN << Particle("CR", HalfAlong(Val(minor_axis),
                                                 Val(minor_length)), m),
                        Particle("CL", Neg(HalfAlong(Val(minor_axis),
                                                     Val(minor_length))), m) >>
                ELSE <<>>
    IN  [ built        |-> TRUE,
          name         |-> name,
          major_axis   |-> major_axis,
          minor_axis   |-> minor_axis,
          major_length |-> major_length,
          minor_length |-> minor_length,
          children     |-> core \o side,
          bonds        |-> {<<"CC", "CH">>} ]

\* bead = Ellipsoid(...)
MakeEllipsoid(name, mass, major_length, major_axis, minor_length, minor_axis) ==
    /\ bead' = Ellipsoid(name, mass, major_length, major_axis, minor_length,
                         minor_axis)
    /\ lastCall' = Call("Ellipsoid",
                        <<name, mass, major_length, major_axis, minor_length,
                          minor_axis>>, "none")
    /\ UNCHANGED <<system, simulation, trace, history, polymer>>

\* Polymer.__init__(): no monomer yet
NoPolymer == [monomers |-> <<>>]

\* bond_axis.lower(), on the spellings the callers use
Lower(s) ==
    CASE s = "Major" -> "major"
      [] s = "Minor" -> "minor"
      [] OTHER -> s

\* seq[idx] of Python, idx counted from 0, a negative idx from the end;
\* <<>> when it is out of range (IndexError)
PyIndex(seq, idx) ==
    LET i == IF idx >= 0 THEN idx + 1 ELSE Len(seq) + idx + 1
    IN  IF i \in 1..Len(seq) THEN <<seq[i]>> ELSE <<>>

\* bead_indices of add_bead: [0, -1] for "major", [3, 4] for "minor"
BeadIndices(bond_axis) ==
    IF Lower(bond_axis) = "major" THEN <<0, 0 - 1>> ELSE <<3, 4>>

\* orientation of add_bead: the chosen axis and its opposite
Orientation(b, bond_axis) ==
    IF Lower(bond_axis) = "major"
    THEN <<b.major_axis, Neg(b.major_axis)>>
    ELSE <<Val(b.minor_axis), Neg(Val(b.minor_axis))>>

\* polymer = Polymer(); polymer.add_bead(bead, bond_axis, separation), on the
\* bead built last.
\* A bond_axis that is neither "major" nor "minor" leaves bead_indices
\* unbound (UnboundLocalError); -bead.minor_axis of a bead built without a
\* minor axis is a TypeError; add_monomer puts a port on bead[idx] for each
\* index, the idx-th constituent of the bead, and keeps the monomer.
AddBead(bond_axis, separation) ==
    /\ bead.built
    /\ LET known == Lower(bond_axis) \in {"major", "minor"}
           noAxis == Lower(bond_axis) = "minor" /\ IsNone(bead.minor_axis)
           indices == BeadIndices(bond_axis)
           found == [k \in 1..2 |-> PyIndex(bead.children, indices[k])]
           error == IF ~known THEN "UnboundLocalError"
                    ELSE IF noAxis THEN "TypeError"
                    ELSE IF \E k \in 1..2 : IsNone(found[k]) THEN "IndexError"
                    ELSE "none"
       IN  /\ lastCall' = Call("add_bead", <<bead.name, bond_axis, separation>>,
                               error)
           /\ polymer' =
                 IF error = "none"
                 THEN [NoPolymer EXCEPT !.monomers =
                         Append(@, [ indices     |-> indices,
                                     anchors     |-> [k \in 1..2 |->
                                                        Val(found[k]).name],
                                     orientation |-> Orientation(bead, bond_axis),
                                     separation  |-> separation ])]
                 ELSE NoPolymer
    /\ UNCHANGED <<system, simulation, trace, history, bead>>

---------------------------------------------------------------------------
(* The inputs *)

\* sequences over S of length lo..hi
SeqsOf(S, lo, hi) == UNION {[1..n -> S] : n \in lo..hi}

\* n_chains: one or two chain species, at most MaxChains chains in all
NChainsChoices ==
    {<<c>> : c \in 1..MaxChains} \cup {<<c, 1>> : c \in 1..(MaxChains - 1)}

\* every System the broad specification starts from
Systems ==
    {NewSystem(nc, [i \in 1..Len(nc) |-> l], CmToNm, m, d) :
        nc \in NChainsChoices, l \in {1, MaxChainLen},
        m \in {MaxMass}, d \in 1..MaxDensity}

\* a fixed edge is a whole number of cm, given in nm
EdgeChoices == {None, Some(CmToNm), Some(CmToNm * MaxEdge)}

Vectors == {<<1, 0, 1>>, <<1, 1, 1>>}

\* the System the Simulation is built on: two chains of four beads
SimSystem == NewSystem(<<2>>, <<4>>, CmToNm, 100, 1)

KTChoices == {100, 150}
\* (kT_init, kT_final) of a ramp: rising, rising by less than the ramp has
\* points to tell apart, and falling
RampEnds == {<<100, 200>>, <<100, 110>>, <<200, 100>>}
\* the step count of a segment: one step or more
StepChoices == {1, MaxSteps}
StepSequences == {None} \cup {Some(s) : s \in SeqsOf(StepChoices, 0, MaxSeqLen)}

\* explicit schedules: dicts {kT: steps} with distinct keys, in insertion order
Schedules ==
    {None, Some(<<>>)} \cup
    {Some(d) : d \in {e \in SeqsOf([key : KTChoices, val : {MaxSteps}], 1, 2) :
                        \A i, j \in 1..Len(e) : i # j => e[i].key # e[j].key}}

Axes == {<<1, 0, 0>>, <<0, 1, 0>>, <<0, 0, 1>>, <<0 - 1, 0, 0>>}

BondAxes == {"major", "Major", "minor", "side"}

---------------------------------------------------------------------------
(* The Simulation controller on its System *)

Init ==
    /\ system = SimSystem
    /\ simulation = NoSimulation
    /\ trace = <<>>
    /\ lastCall = NoCall
    /\ history = InitHistory
    /\ bead = NoBead
    /\ polymer = NoPolymer

\* system.snapshot exists once pack or stack has assembled mb_system
SimulationOnSystem ==
    /\ ~IsNone(system.mb_system)
    /\ SimulationInit

\* The system is assembled (pack, stack) before the Simulation is built on
\* it; its target box is set again, if at all, between the phase calls.
Retarget(x, y, z) ==
    /\ simulation.constructed
    /\ SetTargetBox(x, y, z)

AssemblePack(box_expand_factor, packed) ==
    /\ ~simulation.constructed
    /\ Pack(box_expand_factor, packed)

AssembleStack(y, z, n, vector, x_axis_adjust) ==
    /\ ~simulation.constructed
    /\ Stack(y, z, n, vector, x_axis_adjust)

Next ==
    \/ \E x \in {None, Some(3 * CmToNm)} : Retarget(x, None, None)
    \/ \E packed \in BOOLEAN : AssemblePack(5, packed)
    \/ \E n \in 1..MaxN : AssembleStack(1, 1, n, <<1, 1, 1>>, 1)
    \/ SimulationOnSystem
    \/ \E kT \in KTChoices : Shrink(kT, MaxSteps, 10)
    \/ \E kT \in KTChoices : Quench(kT, MaxSteps)
    \/ \E ends \in RampEnds, step_sequence \in StepSequences :
          Anneal(ends[1], ends[2], step_sequence, None)
    \/ \E schedule \in Schedules :
          Anneal(DefaultKT, DefaultKT, None, schedule)

Spec == Init /\ [][Next]_vars

---------------------------------------------------------------------------
(* The box solver and the lattice stacking alone, over every System *)

InitSystem ==
    /\ system \in Systems
    /\ simulation = NoSimulation
    /\ trace = <<>>
    /\ lastCall = NoCall
    /\ history = InitHistory
    /\ bead = NoBead
    /\ polymer = NoPolymer

NextSystem ==
    \/ \E x, y, z \in EdgeChoices : SetTargetBox(x, y, z)
    \/ \E n \in 0..MaxN, vector \in Vectors, adjust \in 1..2 :
          Stack(1, 2, n, vector, adjust)

SpecSystem == InitSystem /\ [][NextSystem]_vars

---------------------------------------------------------------------------
(* The bead builder alone *)

NextBead ==
    \/ \E mass \in 1..MaxMass, major_length \in 1..MaxEdge, major_axis \in Axes,
          minor_length \in {None, Some(0), Some(1)},
          minor_axis \in {None, Some(<<0, 1, 0>>)} :
             MakeEllipsoid("A", mass, major_length, major_axis, minor_length,
                           minor_axis)
    \/ \E bond_axis \in BondAxes : AddBead(bond_axis, 1)

SpecBead == Init /\ [][NextBead]_vars

---------------------------------------------------------------------------
(* Properties *)

methods == simulation.integrator.methods

\* this step is a call of the phase method op
PhaseStep(op) == lastCall'.op = op /\ history'.calls = history.calls + 1

\* C1: a quench after a completed shrink keeps the method object that is in
\* the integrator's slot and only sets its kT, creating no method; a quench
\* with no completed shrink creates exactly one new method at kT and registers
\* the integrator.  Either way the slot holds exactly one method, at kT, when
\* the run starts.
C1_QuenchMethod ==
    [][PhaseStep("quench") =>
        LET kT == lastCall'.args[1]
            after == simulation'.integrator.methods
        IN  /\ Len(after) = 1
            /\ after[1].kT = kT
            /\ trace'[Len(trace')].ev = "run"
            /\ IF history.shrunk
               THEN /\ Len(methods) = 1
                    /\ after[1].id = methods[1].id
                    /\ history'.created = history.created
               ELSE /\ history'.created = history.created + 1
                    /\ after[1].id = history'.created
                    /\ simulation'.operations.integrator
      ]_vars

\* a quench that followed a shrink and found the shrink's method in the slot
C1_Witness ==
    /\ lastCall.op = "quench"
    /\ history.shrunk
    /\ history.created = 1
    /\ Len(methods) = 1
    /\ methods[1].id = 1
    /\ methods[1].kT = lastCall.args[1]

\* C2: the integrator's method slot never holds more than one method: none
\* before the first phase call, exactly one after any phase call.
C2_AtMostOneMethod ==
    /\ Len(methods) <= 1
    /\ history.calls = 0 => Len(methods) = 0
    /\ history.calls > 0 => Len(methods) = 1

\* two methods have been created and one is in the slot
C2_Witness ==
    /\ history.calls = 2
    /\ history.created = 2
    /\ Len(methods) = 1

\* C3 as stated: anneal creates a method only when neither shrink nor quench
\* has run, and keeps the method object when either has.
C3_AnnealCreatesOnlyWhenFirst ==
    [][PhaseStep("anneal") =>
        IF ~history.shrunk /\ ~history.quenched
        THEN history'.created = history.created + 1
        ELSE /\ history'.created = history.created
             /\ simulation'.integrator.methods[1].id = methods[1].id
      ]_vars

\* C3 as amended: anneal creates a new method, at kT = 1.0, exactly when no
\* shrink has completed (a quench or an earlier anneal does not count: their
\* method is replaced); after a completed shrink it keeps the method object and
\* only sets its temperature.
C3_AnnealCreatesUnlessShrunk ==
    [][PhaseStep("anneal") =>
        LET after == simulation'.integrator.methods IN
        /\ Len(after) = 1
        /\ IF ~history.shrunk
           THEN /\ history'.created = history.created + 1
                /\ after[1].id = history'.created
                /\ trace'[1] = Ev("new_method", DefaultKT)
           ELSE /\ history'.created = history.created
                /\ after[1].id = methods[1].id
                /\ \A i \in 1..Len(trace') : trace'[i].ev # "new_method"
      ]_vars

\* an anneal after a quench, with no shrink, that replaced the quench's method
C3_Witness ==
    /\ lastCall.op = "anneal"
    /\ history.quenched
    /\ ~history.shrunk
    /\ history.created = 2
    /\ methods[1].id = 2

\* the engine calls of the schedule's segments
IsSegmentEv(e) == e.ev \in {"set_kT", "thermalize", "run"}
Segments == SelectSeq(trace, IsSegmentEv)

\* the last call was anneal(kT_init, kT_final, step_sequence) with no explicit
\* schedule, a step_sequence and kT_init < kT_final
RisingRampCall ==
    /\ lastCall.op = "anneal"
    /\ IsNone(lastCall.args[4])
    /\ ~IsNone(lastCall.args[3])
    /\ lastCall.args[1] < lastCall.args[2]

Abs(x) == IF x < 0 THEN 0 - x ELSE x

\* The segments run are k, one per entry of step_sequence and in its order:
\* segment i sets a temperature key, thermalizes at it and runs
\* step_sequence[i] steps; the keys are whole tenths, each the nearest to its
\* point kT_init + (i-1)(kT_final - kT_init)/(k-1) of the ramp, and ascend.
RampRunsEverySegment ==
    LET kT_init == lastCall.args[1]
        kT_final == lastCall.args[2]
        step_sequence == Val(lastCall.args[3])
        k == Len(step_sequence)
        key(i) == Segments[3 * i - 2].arg
    IN  /\ Len(Segments) = 3 * k
        /\ \A i \in 1..k :
              /\ Segments[3 * i - 2].ev = "set_kT"
              /\ Segments[3 * i - 1] = Ev("thermalize", key(i))
              /\ Segments[3 * i] = Ev("run", step_sequence[i])
              /\ key(i) % 10 = 0
              /\ IF k = 1 THEN 2 * Abs(key(i) - kT_init) <= 10
                 ELSE 2 * Abs(key(i) * (k - 1)
                              - (kT_init * (k - 1) + (i - 1) * (kT_final - kT_init)))
                      <= 10 * (k - 1)
        /\ \A i \in 1..(k - 1) : key(i) < key(i + 1)

\* C4 as stated: every rising ramp over a step_sequence of length k runs k
\* segments, in order, at k ascending rounded temperatures, with the step
\* counts of step_sequence.
C4_RampRunsEverySegment == RisingRampCall => RampRunsEverySegment

\* the ramp points, rounded, are pairwise distinct
DistinctRounded ==
    LET temps == RampTemps(lastCall.args[1], lastCall.args[2],
                           Val(lastCall.args[3]))
    IN  \A i, j \in 1..Len(temps) : i # j => temps[i] # temps[j]

\* C4 as amended: a rising ramp whose k points round to k distinct tenths runs
\* k segments, in order, at those ascending temperatures, with the step counts
\* of step_sequence.
C4_DistinctRampRunsEverySegment ==
    RisingRampCall /\ DistinctRounded => RampRunsEverySegment

\* anneal(1.0, 2.0, [s1, s2, s3]) ran three segments, at 1.0, 1.5 and 2.0
C4_Witness ==
    /\ RisingRampCall
    /\ lastCall.args[1] = 100
    /\ lastCall.args[2] = 200
    /\ Len(Val(lastCall.args[3])) = 3
    /\ Len(Segments) = 9
    /\ Segments[1].arg = 100
    /\ Segments[4].arg = 150
    /\ Segments[7].arg = 200

\* an empty step_sequence, or an empty schedule
Malformed(args) ==
    \/ ~IsNone(args[3]) /\ Val(args[3]) = <<>>
    \/ ~IsNone(args[4]) /\ Val(args[4]) = <<>>

\* C5: anneal with an empty step_sequence or an empty schedule raises a
\* ConfigurationError at entry: no method is created or replaced, the
\* integrator is not registered, no step is run, the controller is unchanged.
C5_MalformedScheduleRejected ==
    [][PhaseStep("anneal") /\ Malformed(lastCall'.args) =>
        /\ lastCall'.error = "ConfigurationError"
        /\ simulation' = simulation
        /\ history'.created = history.created
        /\ \A i \in 1..Len(trace') : trace'[i].ev # "run"
      ]_vars

\* C6: the integrator's forces (Gay-Berne pair, harmonic bond) and its rigid
\* constraint are those set at construction and no call changes them; a phase
\* call leaves the System alone as well.
C6_ForcesAndRigidKept ==
    [][simulation.constructed =>
        /\ simulation.integrator.forces = <<"gb", "harmonic">>
        /\ simulation.integrator.rigid = "rigid"
        /\ simulation'.integrator.forces = simulation.integrator.forces
        /\ simulation'.integrator.rigid = simulation.integrator.rigid
        /\ simulation'.constructed
        /\ (\E op \in {"shrink", "quench", "anneal"} : PhaseStep(op))
              => system' = system /\ bead' = bead
      ]_vars

\* after a shrink and then an anneal the integrator still has both forces and
\* the rigid constraint
C6_Witness ==
    /\ lastCall.op = "anneal"
    /\ history.shrunk
    /\ history.calls = 2
    /\ simulation.integrator.forces = <<"gb", "harmonic">>
    /\ simulation.integrator.rigid = "rigid"

\* C7: stack(n) raises its chain-count error (a ValueError) if and only if
\* the total chain count differs from 2*n*n; the error comes before any chain
\* is moved or added (the System is as it was), and with a count of 2*n*n the
\* call raises nothing.
C7_StackCountError ==
    [][lastCall'.op = "stack" =>
        LET n == lastCall'.args[3]
            c == SumSeq(system.n_chains)
        IN  /\ lastCall'.error = "ValueError" <=> c # 2 * n * n
            /\ lastCall'.error = "ValueError" => system' = system
            /\ c = 2 * n * n =>
                  /\ lastCall'.error = "none"
                  /\ \A k \in 1..Len(system'.chains) : system'.chains[k].parent
      ]_vars

\* stack(n=2) on a System of two chains was refused and moved nothing
C7_Witness ==
    /\ lastCall.op = "stack"
    /\ lastCall.args[3] = 2
    /\ SumSeq(system.n_chains) = 2
    /\ lastCall.error = "ValueError"
    /\ IsNone(system.mb_system)
    /\ \A k \in 1..Len(system.chains) :
          system.chains[k].pos = <<0, 0>> /\ ~system.chains[k].parent

\* C8: target_box is None exactly until set_target_box has run (directly or
\* through pack or stack) and is never None again; shrink resizes towards the
\* System's target_box as it stands at the call; pack keeps a target box that
\* is set; stack recomputes it with the x edge fixed to the lattice's.
C8_TargetBox ==
    [][/\ IsNone(system.target_box) <=> ~history.boxSet
       /\ IsNone(system'.target_box) <=> ~history'.boxSet
       /\ ~IsNone(system.target_box) => ~IsNone(system'.target_box)
       /\ PhaseStep("shrink") /\ lastCall'.error = "none" =>
             LET updaters == simulation'.operations.updaters IN
             /\ Len(updaters) = Len(simulation.operations.updaters) + 1
             /\ updaters[Len(updaters)].box2 = system.target_box
             /\ simulation'.target_box = system.target_box
       /\ lastCall'.op = "pack" /\ ~IsNone(system.target_box) =>
             system'.target_box = system.target_box
       /\ lastCall'.op = "stack" /\ lastCall'.error = "none" =>
             system'.target_box[1] =
                 Val(system'.mb_system).box[1] * lastCall'.args[5]
      ]_vars

\* a shrink whose resize target is a box set with a fixed x edge
C8_Witness ==
    /\ lastCall.op = "shrink"
    /\ lastCall.error = "none"
    /\ system.target_box[1] = 3 * CmToNm
    /\ simulation.target_box = system.target_box
    /\ simulation.operations.updaters[1].box2 = system.target_box

\* The box of the last set_target_box call: its fixed edges are the ones
\* given; its volume is mass_in_g / density to within the resolution of the
\* free edges (the exact volume lies between the box and the box with every
\* free edge one unit longer; with no free edge, it is the volume to the
\* unit); and the same call again gives the same box.
BoxMatchesDensity ==
    LET args == lastCall.args
        box == system.target_box
        e(i) == box[i] \div CmToNm
        free(i) == IsNone(args[i])
        low == e(1) * e(2) * e(3)
        grown == (e(1) + (IF free(1) THEN 1 ELSE 0))
                 * (e(2) + (IF free(2) THEN 1 ELSE 0))
                 * (e(3) + (IF free(3) THEN 1 ELSE 0))
        high == IF grown = low THEN low + 1 ELSE grown
    IN  /\ \A i \in 1..3 : box[i] % CmToNm = 0
        /\ \A i \in 1..3 : ~free(i) => box[i] = Val(args[i])
        /\ system.density * low <= MassInG(system)
        /\ MassInG(system) < system.density * high
        /\ TargetBoxFor(system, args[1], args[2], args[3]) = box

\* C9 as stated: for every subset of fixed edges, all three included
C9_BoxMatchesDensityAlways ==
    lastCall.op = "set_target_box" => BoxMatchesDensity

\* C9 as amended: for none, one or two fixed edges (with all three fixed the
\* box is the three given edges, whatever the density)
C9_BoxMatchesDensity ==
    /\ lastCall.op = "set_target_box"
    /\ \E i \in 1..3 : IsNone(lastCall.args[i])
    => BoxMatchesDensity

\* one fixed edge and two equal free edges longer than a unit
C9_Witness ==
    /\ lastCall.op = "set_target_box"
    /\ ~IsNone(lastCall.args[1])
    /\ IsNone(lastCall.args[2])
    /\ IsNone(lastCall.args[3])
    /\ system.target_box[2] = system.target_box[3]
    /\ system.target_box[2] > CmToNm
    /\ system.target_box[1] = Val(lastCall.args[1])

\* C10: a bead built without minor-axis arguments has exactly the three
\* constituents head (CH), center (CC), tail (CT), in that order, at +L/2 along
\* the major axis, at the origin and at -L/2 along the major axis, each of mass
\* m/3, and exactly one bond, center-head.
C10_ThreeParticleBead ==
    /\ lastCall.op = "Ellipsoid"
    /\ IsNone(lastCall.args[5])
    /\ IsNone(lastCall.args[6])
    => LET m == lastCall.args[2]
           L == lastCall.args[3]
           axis == lastCall.args[4]
           c == bead.children
       IN  /\ bead.built
           /\ Len(c) = 3
           /\ <<c[1].name, c[2].name, c[3].name>> = <<"CH", "CC", "CT">>
           /\ \A i \in 1..3 :
                 /\ 2 * c[1].pos[i] = axis[i] * L * Den
                 /\ c[2].pos[i] = 0
                 /\ 2 * c[3].pos[i] = 0 - axis[i] * L * Den
           /\ \A j \in 1..3 : 3 * c[j].mass = m * Den
           /\ bead.bonds = {<<"CC", "CH">>}

\* a bead of odd length along -x built without minor-axis arguments
C10_Witness ==
    /\ lastCall.op = "Ellipsoid"
    /\ IsNone(lastCall.args[5])
    /\ IsNone(lastCall.args[6])
    /\ lastCall.args[3] = 1
    /\ lastCall.args[4] = <<0 - 1, 0, 0>>
    /\ Len(bead.children) = 3
    /\ 2 * bead.children[1].pos[1] = 0 - Den

\* C11: for every bead layout, add_bead with bond_axis "major" takes the head
\* (CH) and tail (CT) constituents as the two anchors, oriented along
\* +major_axis and -major_axis, and with bond_axis "minor" on a bead that has
\* side constituents takes the right (CR) and left (CL) ones, oriented along
\* +minor_axis and -minor_axis: the indices resolve to those constituents.
C11_AnchorsByAxis ==
    /\ lastCall.op = "add_bead"
    /\ Lower(lastCall.args[2]) \in {"major", "minor"}
    /\ Lower(lastCall.args[2]) = "minor" => Len(bead.children) = 5
    => /\ lastCall.error = "none"
       /\ polymer.monomers # <<>>
       /\ LET m == polymer.monomers[Len(polymer.monomers)]
          IN  IF Lower(lastCall.args[2]) = "major"
              THEN /\ m.anchors = <<"CH", "CT">>
                   /\ m.orientation = <<bead.major_axis, Neg(bead.major_axis)>>
              ELSE /\ m.anchors = <<"CR", "CL">>
                   /\ m.orientation = <<Val(bead.minor_axis),
                                        Neg(Val(bead.minor_axis))>>

\* the schedule the last anneal call ran: the one given, or the ramp's
AnnealSchedule ==
    IF ~IsNone(lastCall.args[4]) /\ Val(lastCall.args[4]) # <<>>
    THEN Val(lastCall.args[4])
    ELSE RampSchedule(lastCall.args[1], lastCall.args[2], Val(lastCall.args[3]))

\* the temperature the j-th run of the last phase call is for
RunKT(j) ==
    IF lastCall.op = "anneal" THEN AnnealSchedule[j].key ELSE lastCall.args[1]

\* C12: in every shrink, quench and anneal call, each engine run is preceded,
\* after the run before it, by the setting of the thermostat temperature (a
\* new method or methods[0].kT) and by the thermalization of the momenta, both
\* at the temperature of that run; in shrink the box-resize updater is
\* installed before the run.
C12_SetAndThermalizedBeforeRun ==
    lastCall.op \in {"shrink", "quench", "anneal"}
    => \A r \in 1..Len(trace) :
          trace[r].ev = "run"
          => LET runsBefore == {p \in 1..(r - 1) : trace[p].ev = "run"}
                 prev == Max({0} \cup runsBefore)
                 sets == {i \in (prev + 1)..(r - 1) :
                            trace[i].ev \in {"set_kT", "new_method"}}
                 therms == {i \in (prev + 1)..(r - 1) :
                              trace[i].ev = "thermalize"}
                 kT == RunKT(Cardinality(runsBefore) + 1)
             IN  /\ sets # {}
                 /\ trace[Max(sets)].arg = kT
                 /\ therms # {}
                 /\ \A i \in therms : trace[i].arg = kT
                 /\ lastCall.op = "shrink"
                    => \E u \in 1..(r - 1) : trace[u].ev = "add_updater"

\* an anneal after a shrink that ran two segments at different temperatures
C12_Witness ==
    /\ lastCall.op = "anneal"
    /\ lastCall.error = "none"
    /\ history.shrunk
    /\ Len(trace) = 6
    /\ trace[3].ev = "run"
    /\ trace[4] = Ev("set_kT", AnnealSchedule[2].key)
    /\ trace[4].arg # trace[1].arg
    /\ trace[6].ev = "run"

\* the last call was anneal(kT_init, kT_final, step_sequence) with no explicit
\* schedule, and two or more points of its ramp round to the same tenth
DuplicateRampCall ==
    /\ lastCall.op = "anneal"
    /\ IsNone(lastCall.args[4])
    /\ ~IsNone(lastCall.args[3])
    /\ ~DistinctRounded

=============================================================================
